---------------------------- MODULE Spec2Model ----------------------------
(***************************************************************************)
(* A model of the morphing-string crate.                                   *)
(*                                                                         *)
(*   src/src/edit.rs         Edit and Edit::apply                          *)
(*   src/src/levenshtein.rs  compute_edit_sequence                         *)
(*   src/src/lib.rs          MorphingString and Progress                   *)
(*                                                                         *)
(* A Rust String is modelled by the sequence of its chars (what            *)
(* str::chars() yields); indexes are 0-based as in the source, and are     *)
(* shifted by one where a TLA+ sequence is read.                            *)
(*                                                                         *)
(* Three specifications share the module:                                  *)
(*   Spec      the MorphingString object driven by new/set_target/advance/ *)
(*             get_value/progress calls;                                   *)
(*   SpecSeq   one run of compute_edit_sequence, loop iteration by loop    *)
(*             iteration, followed by the application of its result to     *)
(*             start (the loop of tests::compute_and_apply);                *)
(*   SpecEdit  Edit::apply on arbitrary edits and strings.                 *)
(***************************************************************************)
EXTENDS Integers, Sequences, FiniteSets, TLC

VARIABLES
    \* ---- MorphingString (src/src/lib.rs:8-13) ----
    current_value,      \* String
    target,             \* String
    remaining_edits,    \* VecDeque<Edit>, front = head of the sequence
    total_edits,        \* usize
    panicked,           \* TRUE once a call has panicked (the object is gone)
    last_call,          \* the last call: its name, argument and return value
    popped,             \* history: advance calls that popped an edit since
                        \* the last set_target (or new)
    discarded,          \* history: pending edits the last set_target dropped
    noops,              \* history: advance calls in a row that found the
                        \* queue empty (counted up to MaxNoops)
    \* ---- compute_edit_sequence (src/src/levenshtein.rs:7-127) ----
    pc,                 \* position in the function
    start_chars,
    target_chars,
    dp,
    i,
    j,
    edits,
    shift,
    k,                  \* position of the iter_mut() loop / of the apply loop
    raw,                \* history: edits as backtracking left them
    string,             \* tests::compute_and_apply's `string`
    \* ---- Edit::apply on its own (src/src/edit.rs:9-25) ----
    edit_in,
    string_in,
    result

morph_vars == <<current_value, target, remaining_edits, total_edits,
                panicked, last_call, popped, discarded, noops>>
seq_vars   == <<pc, start_chars, target_chars, dp, i, j, edits, shift, k,
                raw, string>>
edit_vars  == <<edit_in, string_in, result>>
vars == <<morph_vars, seq_vars, edit_vars>>

---------------------------------------------------------------------------
(* Bounds of the model *)

\* longest string handed to new, set_target and compute_edit_sequence
MaxLen == 3
\* a set_target call is only modelled while current_value is this short
MaxCur == 4
\* the history variable noops stops counting here
MaxNoops == 2

\* the chars of the strings handed to new, compute_edit_sequence and
\* Edit::apply
Alphabet == {"a", "b", "c"}
\* the chars of the strings handed to set_target: a morph then finds chars
\* to keep, chars to replace and chars (outside this set) it must remove
TargetAlphabet == {"a", "b"}

StringsOver(A, n) == UNION {[1..m -> A] : m \in 0..n}
Strings == StringsOver(Alphabet, MaxLen)
Targets == StringsOver(TargetAlphabet, MaxLen)

---------------------------------------------------------------------------
(* src/src/edit.rs *)

Insert(c, index)     == [kind |-> "Insert", c |-> c, index |-> index]
Delete(index)        == [kind |-> "Delete", index |-> index]
Substitute(c, index) == [kind |-> "Substitute", c |-> c, index |-> index]

\* What a call leaves: a value, or a panic (index out of bounds).
Ok(v)  == [panic |-> FALSE, value |-> v]
Abort  == [panic |-> TRUE]

\* Vec::insert refusing the index one past the end
VecInsert_Strict(chars, index, c) ==
    IF index >= Len(chars) THEN Abort
    ELSE Ok(SubSeq(chars, 1, index) \o <<c>> \o SubSeq(chars, index + 1, Len(chars)))

\* Vec::insert(index, c): panics if index > len
VecInsert(chars, index, c) ==
    IF index > Len(chars) THEN Abort
    ELSE Ok(SubSeq(chars, 1, index) \o <<c>> \o SubSeq(chars, index + 1, Len(chars)))

\* Vec::remove taking the last char whatever the index (as Vec::pop does)
VecRemove_Last(chars, index) ==
    IF index >= Len(chars) THEN Abort
    ELSE Ok(SubSeq(chars, 1, Len(chars) - 1))

\* Vec::remove(index): panics if index >= len
VecRemove(chars, index) ==
    IF index >= Len(chars) THEN Abort
    ELSE Ok(SubSeq(chars, 1, index) \o SubSeq(chars, index + 2, Len(chars)))

\* chars[index] = c: panics if index >= len
VecSet(chars, index, c) ==
    IF index >= Len(chars) THEN Abort
    ELSE Ok([chars EXCEPT ![index + 1] = c])

\* apply with Substitute inserting its char instead of overwriting one
apply_SubstituteInserts(edit, str) ==
    CASE edit.kind = "Insert"     -> VecInsert(str, edit.index, edit.c)
      [] edit.kind = "Delete"     -> VecRemove(str, edit.index)
      [] edit.kind = "Substitute" -> VecInsert(str, edit.index, edit.c)

\* Edit::apply(&self, string) -> String
apply(edit, str) ==
    CASE edit.kind = "Insert"     -> VecInsert(str, edit.index, edit.c)
      [] edit.kind = "Delete"     -> VecRemove(str, edit.index)
      [] edit.kind = "Substitute" -> VecSet(str, edit.index, edit.c)

---------------------------------------------------------------------------
(* src/src/levenshtein.rs *)

Min(a, b) == IF a <= b THEN a ELSE b

\* vec![vec![0; target_len + 1]; start_len + 1]
ZeroMatrix(s, t) == [x \in 0..Len(s) |-> [y \in 0..Len(t) |-> 0]]

\* for i in 1..=start_len { dp[i][0] = i }
RECURSIVE FirstColumn(_, _, _)
FirstColumn(m, s, x) ==
    IF x > Len(s) THEN m
    ELSE FirstColumn([m EXCEPT ![x][0] = x], s, x + 1)

\* for j in 1..=target_len { dp[0][j] = j }
RECURSIVE FirstRow(_, _, _)
FirstRow(m, t, y) ==
    IF y > Len(t) THEN m
    ELSE FirstRow([m EXCEPT ![0][y] = y], t, y + 1)

\* Cell with the equal-chars case forgotten: a substitution always costs 1
Cell_NoMatch(m, s, t, x, y) ==
    Min(Min(m[x - 1][y - 1] + 1, m[x - 1][y] + 1), m[x][y - 1] + 1)

\* the body of the double loop: the value stored in dp[i][j]
Cell(m, s, t, x, y) ==
    LET substitution_distance ==
            IF s[x] = t[y] THEN m[x - 1][y - 1] ELSE m[x - 1][y - 1] + 1
        deletion_distance  == m[x - 1][y] + 1
        insertion_distance == m[x][y - 1] + 1
    IN  Min(Min(substitution_distance, deletion_distance), insertion_distance)

\* for i in 1..=start_len { for j in 1..=target_len { dp[i][j] = ... } }
RECURSIVE FillCells(_, _, _, _, _)
FillCells(m, s, t, x, y) ==
    IF x > Len(s) THEN m
    ELSE IF y > Len(t) THEN FillCells(m, s, t, x + 1, 1)
    ELSE FillCells([m EXCEPT ![x][y] = Cell(m, s, t, x, y)], s, t, x, y + 1)

\* DpMatrix with the dp[0][j] = j loop left out: the first row stays 0
DpMatrix_NoFirstRow(s, t) ==
    FillCells(FirstColumn(ZeroMatrix(s, t), s, 1), s, t, 1, 1)

\* the dp matrix as the function has it when backtracking starts
DpMatrix(s, t) ==
    FillCells(FirstRow(FirstColumn(ZeroMatrix(s, t), s, 1), t, 1), s, t, 1, 1)

\* min_by_key taking the last of the smallest elements (as max_by_key does)
min_by_key_last(cands) ==
    LET last == CHOOSE n \in 1..Len(cands) :
                    /\ \A q \in 1..Len(cands) : cands[n][1] <= cands[q][1]
                    /\ \A q \in (n + 1)..Len(cands) : cands[q][1] > cands[n][1]
    IN  cands[last]

\* Iterator::min_by_key over an array of (distance, Edit): the first of the
\* elements with the smallest key
min_by_key(cands) ==
    LET first == CHOOSE n \in 1..Len(cands) :
                     /\ \A q \in 1..Len(cands) : cands[n][1] <= cands[q][1]
                     /\ \A q \in 1..(n - 1) : cands[q][1] > cands[n][1]
    IN  cands[first]

\* `continue`: the iteration records no edit
Continue == [kind |-> "continue"]

\* ChooseEdit with the Insert of the differing-chars case put at i - 1
ChooseEdit_InsertBefore(m, s, t, x, y) ==
    IF x = 0 THEN Insert(t[y], 0)
    ELSE IF y = 0 THEN Delete(x - 1)
    ELSE IF s[x] = t[y] THEN Continue
    ELSE min_by_key(<< <<m[x - 1][y - 1], Substitute(t[y], x - 1)>>,
                       <<m[x][y - 1],     Insert(t[y], x - 1)>>,
                       <<m[x - 1][y],     Delete(x - 1)>> >>)[2]

\* ChooseEdit putting the Insert of an exhausted start at its target position
ChooseEdit_InsertAtTarget(m, s, t, x, y) ==
    IF x = 0 THEN Insert(t[y], y - 1)
    ELSE IF y = 0 THEN Delete(x - 1)
    ELSE IF s[x] = t[y] THEN Continue
    ELSE min_by_key(<< <<m[x - 1][y - 1], Substitute(t[y], x - 1)>>,
                       <<m[x][y - 1],     Insert(t[y], x)>>,
                       <<m[x - 1][y],     Delete(x - 1)>> >>)[2]

\* ChooseEdit with no skip of equal chars: they go through min_by_key too
ChooseEdit_NoSkip(m, s, t, x, y) ==
    IF x = 0 THEN Insert(t[y], 0)
    ELSE IF y = 0 THEN Delete(x - 1)
    ELSE min_by_key(<< <<m[x - 1][y - 1], Substitute(t[y], x - 1)>>,
                       <<m[x][y - 1],     Insert(t[y], x)>>,
                       <<m[x - 1][y],     Delete(x - 1)>> >>)[2]

\* the `let edit = if ... else ...` of one backtracking iteration at (i, j)
ChooseEdit(m, s, t, x, y) ==
    IF x = 0 THEN Insert(t[y], 0)
    ELSE IF y = 0 THEN Delete(x - 1)
    ELSE IF s[x] = t[y] THEN Continue
    ELSE min_by_key(<< <<m[x - 1][y - 1], Substitute(t[y], x - 1)>>,
                       <<m[x][y - 1],     Insert(t[y], x)>>,
                       <<m[x - 1][y],     Delete(x - 1)>> >>)[2]

\* BacktrackIter moving on in start only when the chars are equal
BacktrackIter_ContinueHalf(m, s, t, x, y, es) ==
    LET edit == ChooseEdit(m, s, t, x, y)
    IN  CASE edit.kind = "continue"   -> [i |-> x - 1, j |-> y,     edits |-> es]
          [] edit.kind = "Insert"     -> [i |-> x,     j |-> y - 1, edits |-> <<edit>> \o es]
          [] edit.kind = "Delete"     -> [i |-> x - 1, j |-> y,     edits |-> <<edit>> \o es]
          [] edit.kind = "Substitute" -> [i |-> x - 1, j |-> y - 1, edits |-> <<edit>> \o es]

\* one iteration of `while i > 0 || j > 0`
BacktrackIter(m, s, t, x, y, es) ==
    LET edit == ChooseEdit(m, s, t, x, y)
    IN  CASE edit.kind = "continue"   -> [i |-> x - 1, j |-> y - 1, edits |-> es]
          [] edit.kind = "Insert"     -> [i |-> x,     j |-> y - 1, edits |-> <<edit>> \o es]
          [] edit.kind = "Delete"     -> [i |-> x - 1, j |-> y,     edits |-> <<edit>> \o es]
          [] edit.kind = "Substitute" -> [i |-> x - 1, j |-> y - 1, edits |-> <<edit>> \o es]

\* the whole backtracking loop
RECURSIVE Backtrack(_, _, _, _, _, _)
Backtrack(m, s, t, x, y, es) ==
    IF x > 0 \/ y > 0
    THEN LET n == BacktrackIter(m, s, t, x, y, es)
         IN  Backtrack(m, s, t, n.i, n.j, n.edits)
    ELSE es

\* `as usize` of an i64: a negative value wraps around to 2^64 + v.  The
\* model checker's integers are 32 bits wide, so the wrapped value is
\* represented by UsizeWrap + v, which like 2^64 + v lies above every length.
UsizeWrap == 2147483647
AsUsize(v) == IF v >= 0 THEN v ELSE UsizeWrap + v

\* CorrectIter with the running shift kept but never added to an index
CorrectIter_NoShift(es, n, sh) ==
    LET edit == es[n]
    IN  [edits |-> es,
         shift |-> CASE edit.kind = "Insert"     -> sh + 1
                     [] edit.kind = "Delete"     -> sh - 1
                     [] edit.kind = "Substitute" -> sh]

\* CorrectIter with the shift updated before the index is corrected
CorrectIter_ShiftFirst(es, n, sh) ==
    LET edit == es[n]
        next == CASE edit.kind = "Insert"     -> sh + 1
                  [] edit.kind = "Delete"     -> sh - 1
                  [] edit.kind = "Substitute" -> sh
    IN  [edits |-> [es EXCEPT ![n] = [edit EXCEPT !.index = AsUsize(edit.index + next)]],
         shift |-> next]

\* CorrectIter counting a Substitute as a shift to the right
CorrectIter_SubstituteShifts(es, n, sh) ==
    LET edit == es[n]
        fixed == [edit EXCEPT !.index = AsUsize(edit.index + sh)]
    IN  [edits |-> [es EXCEPT ![n] = fixed],
         shift |-> CASE edit.kind = "Insert"     -> sh + 1
                     [] edit.kind = "Delete"     -> sh - 1
                     [] edit.kind = "Substitute" -> sh + 1]

\* CorrectIter with an Insert leaving the shift as it was
CorrectIter_InsertNoShift(es, n, sh) ==
    LET edit == es[n]
        fixed == [edit EXCEPT !.index = AsUsize(edit.index + sh)]
    IN  [edits |-> [es EXCEPT ![n] = fixed],
         shift |-> CASE edit.kind = "Insert"     -> sh
                     [] edit.kind = "Delete"     -> sh - 1
                     [] edit.kind = "Substitute" -> sh]

\* one iteration of `for edit in edits.iter_mut()`, on the n-th edit
CorrectIter(es, n, sh) ==
    LET edit == es[n]
        fixed == [edit EXCEPT !.index = AsUsize(edit.index + sh)]
    IN  [edits |-> [es EXCEPT ![n] = fixed],
         shift |-> CASE edit.kind = "Insert"     -> sh + 1
                     [] edit.kind = "Delete"     -> sh - 1
                     [] edit.kind = "Substitute" -> sh]

\* the whole index-correction loop
RECURSIVE Correct(_, _, _)
Correct(es, n, sh) ==
    IF n > Len(es) THEN es
    ELSE LET c == CorrectIter(es, n, sh)
         IN  Correct(c.edits, n + 1, c.shift)

\* compute_edit_sequence(start, target) -> VecDeque<Edit>
compute_edit_sequence(s, t) ==
    Correct(Backtrack(DpMatrix(s, t), s, t, Len(s), Len(t), <<>>), 1, 0)

---------------------------------------------------------------------------
(* src/src/lib.rs *)

\* Progress { total_edits, remaining_edits }
Progress(total, remaining) == [total_edits |-> total, remaining_edits |-> remaining]

\* Progress::is_complete
is_complete(p) == p.remaining_edits = 0

\* progress with the two counts swapped
progress_swapped == Progress(Len(remaining_edits), total_edits)

\* MorphingString::progress(&self)
progress == Progress(total_edits, Len(remaining_edits))

\* MorphingString::get_value(&self)
get_value == current_value

\* a call as last_call records it: its name, its String argument, and the
\* Progress or the String it returned (the fields a call does not have are
\* left empty)
Call(op, arg, prog, str) == [op |-> op, arg |-> arg, progress |-> prog, value |-> str]
None == Progress(0, 0)
NoCall == Call("none", <<>>, None, <<>>)

\* the other specifications' variables, at rest
SeqIdle ==
    /\ pc = "idle" /\ start_chars = <<>> /\ target_chars = <<>> /\ dp = <<>>
    /\ i = 0 /\ j = 0 /\ edits = <<>> /\ shift = 0 /\ k = 0 /\ raw = <<>>
    /\ string = <<>>
\* no apply call made yet
NoResult == [op |-> "none", out |-> Abort]
EditIdle == edit_in = Continue /\ string_in = <<>> /\ result = NoResult
MorphIdle ==
    /\ current_value = <<>> /\ target = <<>> /\ remaining_edits = <<>>
    /\ total_edits = 0 /\ panicked = FALSE /\ last_call = NoCall /\ popped = 0
    /\ discarded = 0 /\ noops = 0

\* MorphingString::new(value)
new(value) ==
    /\ current_value = value
    /\ target = value
    /\ remaining_edits = <<>>
    /\ total_edits = 0
    /\ panicked = FALSE
    /\ last_call = NoCall
    /\ popped = 0
    /\ discarded = 0
    /\ noops = 0

Init == (\E value \in Strings : new(value)) /\ SeqIdle /\ EditIdle

\* compute_edit_sequence on every pair set_target can hand it, evaluated
\* once (f @@ <<>> is f, held as an explicit table)
EditSequences ==
    [c \in StringsOver(Alphabet, MaxCur) |->
        [t \in Targets |-> compute_edit_sequence(c, t)] @@ <<>>] @@ <<>>

\* set_target computing the edits from the old target instead of from
\* current_value
set_target_from_target(t) ==
    /\ ~panicked
    /\ Len(current_value) <= MaxCur
    /\ remaining_edits' = EditSequences[target][t]
    /\ total_edits' = Len(remaining_edits')
    /\ target' = t
    /\ popped' = 0
    /\ discarded' = Len(remaining_edits)
    /\ noops' = 0
    /\ last_call' = Call("set_target", t, None, <<>>)
    /\ UNCHANGED <<current_value, panicked>>
    /\ UNCHANGED <<seq_vars, edit_vars>>

\* set_target leaving total_edits as it was
set_target_keep_total(t) ==
    /\ ~panicked
    /\ Len(current_value) <= MaxCur
    /\ remaining_edits' = EditSequences[current_value][t]
    /\ target' = t
    /\ popped' = 0
    /\ discarded' = Len(remaining_edits)
    /\ noops' = 0
    /\ last_call' = Call("set_target", t, None, <<>>)
    /\ UNCHANGED <<current_value, panicked, total_edits>>
    /\ UNCHANGED <<seq_vars, edit_vars>>

\* MorphingString::set_target(&mut self, target)
set_target(t) ==
    /\ ~panicked
    /\ Len(current_value) <= MaxCur
    /\ remaining_edits' = EditSequences[current_value][t]
    /\ total_edits' = Len(remaining_edits')
    /\ target' = t
    /\ popped' = 0
    /\ discarded' = Len(remaining_edits)
    /\ noops' = 0
    /\ last_call' = Call("set_target", t, None, <<>>)
    /\ UNCHANGED <<current_value, panicked>>
    /\ UNCHANGED <<seq_vars, edit_vars>>

\* advance reading the front edit without popping it
advance_peek ==
    /\ ~panicked
    /\ IF remaining_edits # <<>>
       THEN LET edit == Head(remaining_edits)
                out  == apply(edit, current_value)
            IN  /\ popped' = popped + 1
                /\ UNCHANGED <<noops, remaining_edits>>
                /\ IF out.panic
                   THEN /\ panicked' = TRUE
                        /\ last_call' = Call("advance", <<>>, None, <<>>)
                        /\ UNCHANGED current_value
                   ELSE /\ current_value' = out.value
                        /\ last_call' = Call("advance", <<>>,
                                             Progress(total_edits, Len(remaining_edits)), <<>>)
                        /\ UNCHANGED panicked
       ELSE /\ last_call' = Call("advance", <<>>, progress, <<>>)
            /\ noops' = IF noops < MaxNoops THEN noops + 1 ELSE noops
            /\ UNCHANGED <<current_value, remaining_edits, popped, panicked>>
    /\ UNCHANGED <<target, total_edits, discarded>>
    /\ UNCHANGED <<seq_vars, edit_vars>>

\* advance taking what is left of the queue as the new total_edits
advance_retotal ==
    /\ ~panicked
    /\ IF remaining_edits # <<>>
       THEN LET edit == Head(remaining_edits)
                out  == apply(edit, current_value)
            IN  /\ remaining_edits' = Tail(remaining_edits)
                /\ total_edits' = Len(remaining_edits')
                /\ popped' = popped + 1
                /\ UNCHANGED noops
                /\ IF out.panic
                   THEN /\ panicked' = TRUE
                        /\ last_call' = Call("advance", <<>>, None, <<>>)
                        /\ UNCHANGED current_value
                   ELSE /\ current_value' = out.value
                        /\ last_call' = Call("advance", <<>>,
                                             Progress(total_edits', Len(remaining_edits')), <<>>)
                        /\ UNCHANGED panicked
       ELSE /\ last_call' = Call("advance", <<>>, progress, <<>>)
            /\ noops' = IF noops < MaxNoops THEN noops + 1 ELSE noops
            /\ UNCHANGED <<current_value, remaining_edits, popped, panicked, total_edits>>
    /\ UNCHANGED <<target, discarded>>
    /\ UNCHANGED <<seq_vars, edit_vars>>

\* MorphingString::advance(&mut self) -> Progress
advance ==
    /\ ~panicked
    /\ IF remaining_edits # <<>>
       THEN LET edit == Head(remaining_edits)
                out  == apply(edit, current_value)
            IN  /\ remaining_edits' = Tail(remaining_edits)
                /\ popped' = popped + 1
                /\ UNCHANGED noops
                /\ IF out.panic
                   THEN /\ panicked' = TRUE
                        /\ last_call' = Call("advance", <<>>, None, <<>>)
                        /\ UNCHANGED current_value
                   ELSE /\ current_value' = out.value
                        /\ last_call' = Call("advance", <<>>,
                                             Progress(total_edits, Len(remaining_edits')), <<>>)
                        /\ UNCHANGED panicked
       ELSE /\ last_call' = Call("advance", <<>>, progress, <<>>)
            /\ noops' = IF noops < MaxNoops THEN noops + 1 ELSE noops
            /\ UNCHANGED <<current_value, remaining_edits, popped, panicked>>
    /\ UNCHANGED <<target, total_edits, discarded>>
    /\ UNCHANGED <<seq_vars, edit_vars>>

\* a call of get_value
GetValue ==
    /\ ~panicked
    /\ last_call' = Call("get_value", <<>>, None, get_value)
    /\ UNCHANGED <<current_value, target, remaining_edits, total_edits, panicked>>
    /\ UNCHANGED <<popped, discarded, noops>>
    /\ UNCHANGED <<seq_vars, edit_vars>>

\* a call of progress
ProgressCall ==
    /\ ~panicked
    /\ last_call' = Call("progress", <<>>, progress, <<>>)
    /\ UNCHANGED <<current_value, target, remaining_edits, total_edits, panicked>>
    /\ UNCHANGED <<popped, discarded, noops>>
    /\ UNCHANGED <<seq_vars, edit_vars>>

Next ==
    \/ \E t \in Targets : set_target(t)
    \/ advance
    \/ GetValue
    \/ ProgressCall

Spec == Init /\ [][Next]_vars

---------------------------------------------------------------------------
(* compute_edit_sequence, one loop iteration at a time, and the loop of    *)
(* tests::compute_and_apply that applies the result to start               *)

\* start/target pairs of tests::compute_and_apply beyond the alphabet
Examples ==
    { << <<"k","i","t","t","e","n">>, <<"m","i","t","t","e","n","s">> >>,
      << <<"s","u","n","d","a","y">>, <<"s","a","t","u","r","d","a","y">> >>,
      << <<"0","1","2","3","4">>, <<"x","0","1","2","3","a">> >>,
      << <<"a","b","c","d","e","f">>, <<"x","a","z","c","e","d">> >> }

Inputs == (Strings \X Strings) \cup Examples

InitSeq ==
    /\ \E p \in Inputs : start_chars = p[1] /\ target_chars = p[2]
    /\ pc = "matrix" /\ dp = <<>> /\ i = 0 /\ j = 0 /\ edits = <<>>
    /\ shift = 0 /\ k = 0 /\ raw = <<>> /\ string = <<>>
    /\ MorphIdle /\ EditIdle

\* lines 8-48: the matrix is filled, the descent starts at its last cell
Matrix ==
    /\ pc = "matrix"
    /\ dp' = DpMatrix(start_chars, target_chars)
    /\ i' = Len(start_chars)
    /\ j' = Len(target_chars)
    /\ edits' = <<>>
    /\ pc' = "backtrack"
    /\ UNCHANGED <<start_chars, target_chars, shift, k, raw, string>>
    /\ UNCHANGED <<morph_vars, edit_vars>>

\* lines 50-105: one iteration of the while loop
BacktrackStep ==
    /\ pc = "backtrack"
    /\ ~(i = 0 /\ j = 0)
    /\ LET n == BacktrackIter(dp, start_chars, target_chars, i, j, edits)
       IN  i' = n.i /\ j' = n.j /\ edits' = n.edits
    /\ UNCHANGED <<pc, start_chars, target_chars, dp, shift, k, raw, string>>
    /\ UNCHANGED <<morph_vars, edit_vars>>

\* the while loop ends; line 109: let mut shift = 0i64
BacktrackExit ==
    /\ pc = "backtrack"
    /\ i = 0 /\ j = 0
    /\ shift' = 0
    /\ k' = 1
    /\ raw' = edits
    /\ pc' = "correct"
    /\ UNCHANGED <<start_chars, target_chars, dp, i, j, edits, string>>
    /\ UNCHANGED <<morph_vars, edit_vars>>

\* lines 110-124: one iteration of the index correction
CorrectStep ==
    /\ pc = "correct"
    /\ k <= Len(edits)
    /\ LET c == CorrectIter(edits, k, shift)
       IN  edits' = c.edits /\ shift' = c.shift
    /\ k' = k + 1
    /\ UNCHANGED <<pc, start_chars, target_chars, dp, i, j, raw, string>>
    /\ UNCHANGED <<morph_vars, edit_vars>>

\* line 126: edits is last_call; the test starts from start.to_string()
Return ==
    /\ pc = "correct"
    /\ k > Len(edits)
    /\ string' = start_chars
    /\ k' = 1
    /\ pc' = "apply"
    /\ UNCHANGED <<start_chars, target_chars, dp, i, j, edits, shift, raw>>
    /\ UNCHANGED <<morph_vars, edit_vars>>

\* tests::compute_and_apply, lines 291-293: string = edit.apply(&string)
ApplyStep ==
    /\ pc = "apply"
    /\ k <= Len(edits)
    /\ LET out == apply(edits[k], string)
       IN  IF out.panic
           THEN pc' = "panicked" /\ UNCHANGED <<string, k>>
           ELSE string' = out.value /\ k' = k + 1 /\ UNCHANGED pc
    /\ UNCHANGED <<start_chars, target_chars, dp, i, j, edits, shift, raw>>
    /\ UNCHANGED <<morph_vars, edit_vars>>

\* every edit has been applied
ApplyExit ==
    /\ pc = "apply"
    /\ k > Len(edits)
    /\ pc' = "done"
    /\ UNCHANGED <<start_chars, target_chars, dp, i, j, edits, shift, k, raw, string>>
    /\ UNCHANGED <<morph_vars, edit_vars>>

NextSeq ==
    \/ Matrix
    \/ BacktrackStep
    \/ BacktrackExit
    \/ CorrectStep
    \/ Return
    \/ ApplyStep
    \/ ApplyExit

SpecSeq == InitSeq /\ [][NextSeq]_vars

---------------------------------------------------------------------------
(* Edit::apply on any edit and any string *)

\* the indexes tried: every one in range, and the first two out of range
Indexes == 0..(MaxLen + 1)

Edits ==
    {Insert(c, n) : c \in Alphabet, n \in Indexes}
        \cup {Delete(n) : n \in Indexes}
        \cup {Substitute(c, n) : c \in Alphabet, n \in Indexes}

InitEdit ==
    /\ edit_in \in Edits
    /\ string_in \in Strings
    /\ result = NoResult
    /\ MorphIdle /\ SeqIdle

\* edit.apply(&string)
ApplyEdit ==
    /\ result.op = "none"
    /\ result' = [op |-> "apply", out |-> apply(edit_in, string_in)]
    /\ UNCHANGED <<edit_in, string_in>>
    /\ UNCHANGED <<morph_vars, seq_vars>>

NextEdit == ApplyEdit

SpecEdit == InitEdit /\ [][NextEdit]_vars

---------------------------------------------------------------------------
(* Reference notions the properties are stated with *)

\* the classical Levenshtein distance, by its textbook recursion
RECURSIVE Lev(_, _)
Lev(s, t) ==
    IF s = <<>> THEN Len(t)
    ELSE IF t = <<>> THEN Len(s)
    ELSE IF Head(s) = Head(t) THEN Lev(Tail(s), Tail(t))
    ELSE 1 + Min(Min(Lev(Tail(s), t), Lev(s, Tail(t))), Lev(Tail(s), Tail(t)))

\* the index of an edit is valid for a string: 0..=length for Insert,
\* 0..length-1 for Delete and Substitute
InRange(edit, str) ==
    IF edit.kind = "Insert"
    THEN edit.index \in 0..Len(str)
    ELSE edit.index \in 0..(Len(str) - 1)

HasKind(es, kind) == \E n \in 1..Len(es) : es[n].kind = kind

Kitten    == <<"k","i","t","t","e","n">>
Mittens   == <<"m","i","t","t","e","n","s">>
Sunday    == <<"s","u","n","d","a","y">>
Saturday  == <<"s","a","t","u","r","d","a","y">>

---------------------------------------------------------------------------
(* Properties of compute_edit_sequence, checked under SpecSeq *)

\* C1: round trip.  Applying the edits of compute_edit_sequence(s, t) to s
\* front to back, each to the string the previous one produced, never
\* panics and ends with exactly t.
RoundTrip ==
    /\ pc # "panicked"
    /\ pc = "done" => string = target_chars

\* C1 witness: kitten has been morphed into mittens
RoundTripWitness ==
    /\ pc = "done"
    /\ start_chars = Kitten
    /\ string = Mittens
    /\ Len(edits) = 2

\* C2: minimality.  The last_call sequence has as many edits as the classical
\* Levenshtein distance between s and t, and during backtracking the edits
\* recorded so far plus the distance still to cover from (i, j) add up to
\* that distance: no recorded edit lies off a minimum-cost path.
Minimality ==
    /\ pc = "backtrack" =>
          Len(edits) + Lev(SubSeq(start_chars, 1, i), SubSeq(target_chars, 1, j))
              = Lev(start_chars, target_chars)
    /\ pc \in {"correct", "apply", "done"} =>
          Len(edits) = Lev(start_chars, target_chars)

\* C2 witness: a last_call sequence that mixes an Insert and a Delete where
\* substituting every char would have cost more
MinimalityWitness ==
    /\ pc = "done"
    /\ HasKind(edits, "Insert") /\ HasKind(edits, "Delete")
    /\ Len(edits) < Len(start_chars)
    /\ \A n \in 1..Len(start_chars) : start_chars[n] # target_chars[n]

\* C3: index validity.  Every edit of the last_call sequence is in range for
\* the string it is applied to at that moment, so no application aborts.
IndexValidity ==
    /\ pc # "panicked"
    /\ (pc = "apply" /\ k <= Len(edits)) => InRange(edits[k], string)

\* C3 witness: a Delete about to be applied, in range only because an
\* earlier Insert has shifted its index
IndexValidityWitness ==
    /\ pc = "apply"
    /\ k >= 2 /\ k <= Len(edits)
    /\ edits[k].kind = "Delete"
    /\ edits[1].kind = "Insert"
    /\ edits[k].index = Len(string) - 1
    /\ raw[k].index = Len(string) - 2

\* the edit the tie-break (Substitute, then Insert, then Delete) picks at
\* (i, j) when the chars differ
PriorityEdit ==
    LET sub == dp[i - 1][j - 1]
        ins == dp[i][j - 1]
        del == dp[i - 1][j]
    IN  IF sub <= ins /\ sub <= del THEN Substitute(target_chars[j], i - 1)
        ELSE IF ins <= del THEN Insert(target_chars[j], i)
        ELSE Delete(i - 1)

\* the two sequences the crate's documentation pins
PinnedExamples ==
    pc \in {"apply", "done"} =>
        /\ (start_chars = Kitten /\ target_chars = Mittens) =>
              edits = <<Substitute("m", 0), Insert("s", 6)>>
        /\ (start_chars = Sunday /\ target_chars = Saturday) =>
              edits = <<Insert("a", 1), Insert("t", 2), Substitute("r", 4)>>

\* C9: deterministic tie-break.  Wherever backtracking stands on differing
\* chars with both strings remaining, the edit it records is the one with
\* the smallest predecessor in dp, Substitute before Insert before Delete on
\* ties; kitten->mittens and sunday->saturday give the pinned sequences.
TieBreak ==
    /\ []PinnedExamples
    /\ [][(BacktrackStep /\ i > 0 /\ j > 0 /\ start_chars[i] # target_chars[j])
            => edits' = <<PriorityEdit>> \o edits]_vars

\* C9 witness: backtracking has just recorded an Insert where Insert and
\* Delete tied below Substitute
TieBreakWitness ==
    /\ pc = "backtrack"
    /\ edits # <<>> /\ Head(edits).kind = "Insert"
    /\ i > 0
    /\ Head(edits).index = i
    /\ start_chars[i] # target_chars[j + 1]
    /\ dp[i][j] = dp[i - 1][j + 1]
    /\ dp[i][j] < dp[i - 1][j]

\* the edits of kind among the first n of es
CountKind(es, n, kind) == Cardinality({q \in 1..n : es[q].kind = kind})

\* the n-th edit with its index replaced
WithIndex(edit, index) == [edit EXCEPT !.index = index]

\* C14: index correction.  Backtracking records an edit with an index into
\* the unmutated start string (i - 1 for Substitute and Delete, i for
\* Insert, which is 0 once start is exhausted); the returned edit is that
\* edit with its index raised by the Inserts and lowered by the Deletes that
\* precede it in the sequence, Substitutes counting for nothing;
\* 01234 -> x0123a gives [Insert x@0, Substitute a@5].
IndexCorrection ==
    /\ [][(BacktrackStep /\ Len(edits') > Len(edits)) =>
            Head(edits').index =
                IF Head(edits').kind = "Insert" THEN i ELSE i - 1]_vars
    /\ [](pc \in {"apply", "done"} =>
            /\ Len(edits) = Len(raw)
            /\ \A n \in 1..Len(edits) :
                  edits[n] = WithIndex(raw[n],
                                 raw[n].index + CountKind(raw, n - 1, "Insert")
                                              - CountKind(raw, n - 1, "Delete"))
            /\ (start_chars = <<"0","1","2","3","4">>
                    /\ target_chars = <<"x","0","1","2","3","a">>) =>
                  edits = <<Insert("x", 0), Substitute("a", 5)>>)

\* C14 witness: 01234 -> x0123a has returned; the Substitute recorded at
\* index 4 comes out at index 5, after the one Insert before it
IndexCorrectionWitness ==
    /\ pc = "done"
    /\ start_chars = <<"0","1","2","3","4">>
    /\ raw = <<Insert("x", 0), Substitute("a", 4)>>
    /\ edits = <<Insert("x", 0), Substitute("a", 5)>>

\* C15: empty-string edge cases.  compute_edit_sequence("", t) is len(t)
\* Inserts, the n-th (from 0) putting t[n] at index n;
\* compute_edit_sequence(s, "") is len(s) Deletes, each at index 0.
EmptyEdgeCases ==
    pc \in {"apply", "done"} =>
        /\ start_chars = <<>> =>
              /\ Len(edits) = Len(target_chars)
              /\ \A n \in 1..Len(edits) : edits[n] = Insert(target_chars[n], n - 1)
        /\ target_chars = <<>> =>
              /\ Len(edits) = Len(start_chars)
              /\ \A n \in 1..Len(edits) : edits[n] = Delete(0)

\* C15 witness: a string of MaxLen chars has been emptied by MaxLen Deletes
\* at index 0, the last of them recorded at index MaxLen - 1
EmptyEdgeCasesWitness ==
    /\ pc = "done"
    /\ target_chars = <<>>
    /\ Len(start_chars) = MaxLen
    /\ Len(edits) = MaxLen
    /\ raw[MaxLen] = Delete(MaxLen - 1)
    /\ edits[MaxLen] = Delete(0)
    /\ string = <<>>

\* C18: corrected indices never go backwards.  For consecutive edits e_k,
\* e_k+1 of a returned sequence, index(e_k+1) >= index(e_k), and
\* index(e_k+1) > index(e_k) when e_k is an Insert or a Substitute.
LeftToRight ==
    pc \in {"apply", "done"} =>
        \A n \in 1..(Len(edits) - 1) :
            /\ edits[n + 1].index >= edits[n].index
            /\ edits[n].kind \in {"Insert", "Substitute"} =>
                  edits[n + 1].index > edits[n].index

\* C18 witness: a returned sequence where a Delete is followed by an edit at
\* the same index, and a Substitute by one further right
LeftToRightWitness ==
    /\ pc = "done"
    /\ \E n \in 1..(Len(edits) - 1) :
          edits[n].kind = "Delete" /\ edits[n + 1].index = edits[n].index
    /\ \E n \in 1..(Len(edits) - 1) :
          edits[n].kind = "Substitute" /\ edits[n + 1].index > edits[n].index

---------------------------------------------------------------------------
(* Properties of MorphingString, checked under Spec *)

\* C4: progress monotonicity.  With a target set (in any state, also over
\* pending edits), every advance that finds an edit pending leaves exactly
\* one fewer pending and does not abort; the pending count is total_edits
\* less the advances that popped, so it is 0 after exactly total_edits of
\* them, and then current_value is the target and a further advance changes
\* nothing.
ProgressMonotonicity ==
    [][advance =>
        /\ remaining_edits # <<>> =>
              /\ Len(remaining_edits') = Len(remaining_edits) - 1
              /\ ~panicked'
        /\ Len(remaining_edits') = total_edits - popped'
        /\ remaining_edits' = <<>> =>
              /\ popped' = total_edits
              /\ current_value' = target
        /\ remaining_edits = <<>> =>
              UNCHANGED <<current_value, target, remaining_edits, total_edits>>
      ]_vars

\* C4 witness: a target set over pending edits has been reached by
\* total_edits advances, and one more advance found nothing to do
ProgressMonotonicityWitness ==
    /\ discarded > 0
    /\ total_edits >= 2
    /\ popped = total_edits
    /\ remaining_edits = <<>>
    /\ current_value = target
    /\ noops = 1

\* set_target has just returned
AfterSetTarget == last_call.op = "set_target"

\* C5: set_target discards the pending edits.  Right after set_target(t2),
\* in whatever state it was called, the queue is exactly
\* compute_edit_sequence(current_value, t2) with nothing of the old queue
\* left, total_edits is its length, target is t2, and the call has not
\* changed current_value.
SetTargetDiscards ==
    /\ [](AfterSetTarget =>
            /\ target = last_call.arg
            /\ remaining_edits = compute_edit_sequence(current_value, last_call.arg)
            /\ total_edits = Len(remaining_edits))
    /\ [][AfterSetTarget' => current_value' = current_value]_vars

\* C5 witness: set_target has just been called in the middle of a morph
\* (current_value is longer than any string handed in, so an Insert had been
\* applied and a Delete was pending), has dropped the pending edits and
\* left a longer queue toward the new target
SetTargetDiscardsWitness ==
    /\ AfterSetTarget
    /\ Len(current_value) > MaxLen
    /\ discarded >= 1
    /\ Len(remaining_edits) > discarded
    /\ total_edits = Len(remaining_edits)

\* C6: settled invariant.  In every reachable state, an empty queue implies
\* current_value = target.
Settled == remaining_edits = <<>> => current_value = target

\* C6 witness: a morph of three edits has settled on its target
SettledWitness ==
    /\ remaining_edits = <<>>
    /\ total_edits = 3
    /\ popped = 3
    /\ last_call.op = "advance"
    /\ current_value = target

\* C7: advance is a no-op at completion.  With the queue empty, advance
\* leaves current_value, target, total_edits and the queue as they are and
\* returns Progress {total_edits, remaining_edits: 0}, every time.
AdvanceNoOp ==
    [][(advance /\ remaining_edits = <<>>) =>
        /\ UNCHANGED <<current_value, target, total_edits, remaining_edits, panicked>>
        /\ last_call'.op = "advance"
        /\ last_call'.progress = Progress(total_edits, 0)
        /\ is_complete(last_call'.progress)
      ]_vars

\* C7 witness: advance has been called MaxNoops times in a row on a finished
\* morph and has returned the same Progress
AdvanceNoOpWitness ==
    /\ noops = MaxNoops
    /\ total_edits >= 2
    /\ popped = total_edits
    /\ last_call.op = "advance"
    /\ last_call.progress = Progress(total_edits, 0)

\* C8: no abort through the interface.  Under every interleaving of
\* set_target and advance, every edit advance pops is in range for
\* current_value at that moment, and no call panics.
NoAbort ==
    /\ []~panicked
    /\ [][(advance /\ remaining_edits # <<>>) =>
            InRange(Head(remaining_edits), current_value)]_vars

\* C8 witness: after a set_target that dropped pending edits, advance has
\* applied two edits of the new queue, which is not finished yet
NoAbortWitness ==
    /\ ~panicked
    /\ discarded > 0
    /\ popped >= 2
    /\ last_call.op = "advance"
    /\ remaining_edits # <<>>

\* C12: identity.  compute_edit_sequence(s, s) is empty for every string s
\* an object is created with (the empty string too), and set_target(t) with
\* t equal to current_value leaves the object settled at once:
\* total_edits = 0 and remaining_edits = 0.
Identity ==
    /\ last_call.op = "none" =>
          compute_edit_sequence(current_value, current_value) = <<>>
    /\ (AfterSetTarget /\ last_call.arg = current_value) =>
          /\ remaining_edits = <<>>
          /\ total_edits = 0
          /\ progress = Progress(0, 0)
          /\ is_complete(progress)

\* C12 witness: in the middle of a morph, set_target has been handed the
\* non-empty current value; the pending edits are gone and nothing is left
\* to do
IdentityWitness ==
    /\ AfterSetTarget
    /\ last_call.arg = current_value
    /\ current_value # <<>>
    /\ discarded >= 1
    /\ remaining_edits = <<>>
    /\ total_edits = 0

\* C13: only set_target starts a morph.  A step that lengthens the queue or
\* changes total_edits or target is a set_target call: advance never does
\* any of it, get_value and progress change no field at all, get_value
\* returns current_value and progress returns exactly
\* {total_edits, length of the queue}.
OnlySetTargetStartsMorph ==
    /\ [][(\/ Len(remaining_edits') > Len(remaining_edits)
           \/ total_edits' # total_edits
           \/ target' # target) => last_call'.op = "set_target"]_vars
    /\ [][last_call'.op = "advance" =>
            /\ Len(remaining_edits') <= Len(remaining_edits)
            /\ UNCHANGED <<total_edits, target>>]_vars
    /\ [][last_call'.op \in {"get_value", "progress"} =>
            UNCHANGED <<current_value, target, remaining_edits, total_edits, panicked>>]_vars
    /\ [](last_call.op = "progress" =>
            last_call.progress = Progress(total_edits, Len(remaining_edits)))
    /\ [](last_call.op = "get_value" => last_call.value = current_value)

\* C13 witness: progress has been called in the middle of a morph and has
\* returned the counts of the object, which is still morphing
OnlySetTargetStartsMorphWitness ==
    /\ last_call.op = "progress"
    /\ popped >= 1
    /\ Len(remaining_edits) >= 2
    /\ last_call.progress = Progress(total_edits, Len(remaining_edits))
    /\ last_call.progress.remaining_edits < last_call.progress.total_edits
    /\ ~is_complete(last_call.progress)

\* C16: the queue is as long as the distance left.  In every reachable
\* state the number of pending edits is the Levenshtein distance between
\* current_value and target, so progress().is_complete() holds exactly when
\* current_value is the target: the object is never morphing while it
\* already shows the target.
PendingIsDistance ==
    /\ Len(remaining_edits) = Lev(current_value, target)
    /\ is_complete(progress) <=> current_value = target

\* C16 witness: two edits into a morph set over pending edits, with the
\* queue not yet empty and current_value not yet the target
PendingIsDistanceWitness ==
    /\ discarded >= 1
    /\ popped = 2
    /\ Len(remaining_edits) >= 1
    /\ Len(remaining_edits) = Lev(current_value, target)
    /\ current_value # target

\* the edits of es applied front to back to str, each to the string the
\* previous one produced
RECURSIVE ApplyAll(_, _)
ApplyAll(es, str) ==
    IF es = <<>> THEN Ok(str)
    ELSE LET out == apply(Head(es), str)
         IN  IF out.panic THEN out ELSE ApplyAll(Tail(es), out.value)

\* C17: the queue leads to the target.  In every reachable state, applying
\* the whole pending queue front to back to current_value yields target,
\* remaining_edits <= total_edits, and total_edits - remaining_edits is the
\* number of advance calls that popped an edit since the last set_target.
QueueLeadsToTarget ==
    /\ LET out == ApplyAll(remaining_edits, current_value)
       IN  ~out.panic /\ out.value = target
    /\ Len(remaining_edits) <= total_edits
    /\ total_edits - Len(remaining_edits) = popped

\* C17 witness: one edit of three has been popped from a queue set over
\* pending edits; the two left still lead to the target
QueueLeadsToTargetWitness ==
    /\ discarded >= 1
    /\ total_edits = 3
    /\ popped = 1
    /\ Len(remaining_edits) = 2
    /\ ApplyAll(remaining_edits, current_value).value = target

\* the values the string takes while es is applied front to back to str:
\* str itself, then the string after each edit
RECURSIVE Trail(_, _)
Trail(es, str) ==
    IF es = <<>> THEN <<str>>
    ELSE LET out == apply(Head(es), str)
         IN  IF out.panic THEN <<str>>
             ELSE <<str>> \o Trail(Tail(es), out.value)

\* C19: every popping advance changes the value.  An advance that pops an
\* edit leaves a current_value different from the one before; a pending
\* Substitute never carries the character already at its index; and the
\* values of one morph, current_value and every value the pending queue
\* leads through up to the target, are pairwise different.
NoRepeat ==
    /\ [][popped' = popped + 1 => current_value' # current_value]_vars
    /\ [](\A n \in 1..Len(remaining_edits) :
             LET edit == remaining_edits[n]
                 at   == Trail(SubSeq(remaining_edits, 1, n - 1), current_value)[n]
             IN  edit.kind = "Substitute" => at[edit.index + 1] # edit.c)
    /\ [](LET trail == Trail(remaining_edits, current_value)
          IN  /\ Len(trail) = Len(remaining_edits) + 1
              /\ \A m \in 1..Len(trail) : \A n \in 1..Len(trail) :
                    m < n => trail[m] # trail[n])

\* C19 witness: an advance has just popped the first edit of a queue set over
\* pending edits, the value changed, and a Substitute of a different
\* character is next with more to follow
NoRepeatWitness ==
    /\ discarded >= 1
    /\ popped = 1
    /\ last_call.op = "advance"
    /\ Len(remaining_edits) >= 2
    /\ Head(remaining_edits).kind = "Substitute"
    /\ current_value[Head(remaining_edits).index + 1] # Head(remaining_edits).c

---------------------------------------------------------------------------
(* Properties of Edit::apply, checked under SpecEdit *)

Applied == result.op = "apply"

\* C10: apply aborts on an out-of-range index.  Insert with index > length,
\* Delete and Substitute with index >= length abort (so does every edit
\* with index 1 on the empty string); every other edit returns a string,
\* and Insert with index = length appends its char.
AbortsOutOfRange ==
    Applied =>
        /\ result.out.panic <=> ~InRange(edit_in, string_in)
        /\ (edit_in.kind = "Insert" /\ edit_in.index > Len(string_in)) => result.out.panic
        /\ (edit_in.kind # "Insert" /\ edit_in.index >= Len(string_in)) => result.out.panic
        /\ (string_in = <<>> /\ edit_in.index = 1) => result.out.panic
        /\ (edit_in.kind = "Insert" /\ edit_in.index = Len(string_in)) =>
              /\ ~result.out.panic
              /\ result.out.value = Append(string_in, edit_in.c)

\* C10 witness: Substitute at index 1 has aborted on the empty string
AbortsOutOfRangeWitness ==
    /\ Applied
    /\ string_in = <<>>
    /\ edit_in = Substitute("a", 1)
    /\ result.out.panic

\* C11: apply performs exactly one mutation.  For an in-range index k,
\* Insert(c, k) returns a string one longer with c at k, the chars before k
\* in place and those from k on moved right by one; Delete(k) returns a
\* string one shorter with char k gone and the others in order;
\* Substitute(c, k) returns a string of the same length holding c at k and
\* equal to the input elsewhere; the input string is left as it was.
SingleMutation ==
    /\ [][string_in' = string_in /\ edit_in' = edit_in]_vars
    /\ []((Applied /\ InRange(edit_in, string_in)) =>
            /\ ~result.out.panic
            /\ LET out == result.out.value
                   n   == Len(string_in)
                   at  == edit_in.index
               IN  CASE edit_in.kind = "Insert" ->
                          /\ Len(out) = n + 1
                          /\ out[at + 1] = edit_in.c
                          /\ \A p \in 1..at : out[p] = string_in[p]
                          /\ \A p \in (at + 1)..n : out[p + 1] = string_in[p]
                     [] edit_in.kind = "Delete" ->
                          /\ Len(out) = n - 1
                          /\ \A p \in 1..at : out[p] = string_in[p]
                          /\ \A p \in (at + 2)..n : out[p - 1] = string_in[p]
                     [] edit_in.kind = "Substitute" ->
                          /\ Len(out) = n
                          /\ out[at + 1] = edit_in.c
                          /\ \A p \in (1..n) \ {at + 1} : out[p] = string_in[p])

\* C11 witness: Delete at index 1 has turned abc into ac
SingleMutationWitness ==
    /\ Applied
    /\ edit_in = Delete(1)
    /\ string_in = <<"a", "b", "c">>
    /\ ~result.out.panic
    /\ result.out.value = <<"a", "c">>

===========================================================================
